---- MODULE Spec2Model ----
(***************************************************************************)
(* Model of the process bootstrap in src/main.ts.                          *)
(*                                                                         *)
(*   async function bootstrap() {                                          *)
(*     const app = await NestFactory.create(AppModule);                    *)
(*     await app.listen(3000);                                             *)
(*     const prismaService = app.get(PrismaService);                       *)
(*     await prismaService.enableShutdownHooks(app)                        *)
(*   }                                                                     *)
(*   bootstrap();                                                          *)
(*                                                                         *)
(* An `await` is two steps: the call that yields a pending promise, and    *)
(* the resumption of bootstrap once that promise has settled.  The         *)
(* settling itself is a step of the callee (the framework, the listener,   *)
(* the Prisma service), whose outcome bootstrap does not control.          *)
(***************************************************************************)
EXTENDS Naturals, Sequences

VARIABLES
    pc,             \* bootstrap's position (the await it is suspended on)
    createState,    \* promise of NestFactory.create(AppModule)
    listenState,    \* promise of app.listen(3000)
    getState,       \* outcome of the synchronous app.get(PrismaService)
    hooksState,     \* promise of prismaService.enableShutdownHooks(app)
    calls,          \* the calls bootstrap has issued, in order
    listening,      \* the HTTP listener accepts inbound requests
    port,           \* the port handed to app.listen
    hookRegistered, \* the Prisma beforeExit listener is in place
    requests,       \* inbound requests accepted so far
    exited,         \* the process has exited on a shutdown signal
    hooksFired      \* the application's shutdown hooks ran before the exit

vars == <<pc, createState, listenState, getState, hooksState, calls,
          listening, port, hookRegistered, requests, exited, hooksFired>>

\* Bound on the inbound requests the listener is offered.
MaxRequests == 4

\* The port literal of `await app.listen(3000)`.
ListenPort == 3000

\* The statements of bootstrap's body, in source order.
BootstrapSteps == <<"create", "listen", "get", "enableShutdownHooks">>

\* A promise is not yet created, pending, or settled one way or the other.
PromiseStates == {"idle", "pending", "resolved", "rejected"}

\* How a pending promise may settle.
Outcomes == {"resolved", "rejected"}

\* `await NestFactory.create(AppModule)` lets bootstrap continue with the
\* next statement only once the promise has resolved.
CreateAwaited == createState = "resolved"

\* `app.listen(3000)` without its await: bootstrap continues as soon as the
\* call has been made, whatever becomes of the promise.
ListenNotAwaited == listenState # "idle"

\* `await app.listen(3000)` lets bootstrap continue with the next statement
\* only once the promise has resolved.
ListenAwaited == listenState = "resolved"

\* `await prismaService.enableShutdownHooks(app)`.
HooksAwaited == hooksState = "resolved"

Init ==
    /\ pc = "start"
    /\ createState = "idle"
    /\ listenState = "idle"
    /\ getState = "idle"
    /\ hooksState = "idle"
    /\ calls = <<>>
    /\ listening = FALSE
    /\ port = 0
    /\ hookRegistered = FALSE
    /\ requests = 0
    /\ exited = FALSE
    /\ hooksFired = FALSE

\* `bootstrap();` runs the body synchronously up to its first await: it calls
\* NestFactory.create(AppModule) and suspends on the returned promise.
Bootstrap ==
    /\ ~exited
    /\ pc = "start"
    /\ pc' = "create"
    /\ createState' = "pending"
    /\ calls' = Append(calls, "create")
    /\ UNCHANGED <<listenState, getState, hooksState, listening, port,
                   hookRegistered, requests, exited, hooksFired>>

\* NestFactory.create settles: the application object exists, or creation
\* failed.
CreateSettles ==
    /\ ~exited
    /\ createState = "pending"
    /\ \E o \in Outcomes : createState' = o
    /\ UNCHANGED <<pc, listenState, getState, hooksState, calls, listening,
                   port, hookRegistered, requests, exited, hooksFired>>

\* bootstrap resumes after `await NestFactory.create(AppModule)`: on success
\* it calls app.listen(3000) and suspends again; on failure the await throws
\* and bootstrap's own promise rejects, nothing below it runs.
ResumeAfterCreate ==
    /\ ~exited
    /\ pc = "create"
    /\ \/ /\ CreateAwaited
          /\ pc' = "listen"
          /\ listenState' = "pending"
          /\ port' = ListenPort
          /\ calls' = Append(calls, "listen")
       \/ /\ createState = "rejected"
          /\ pc' = "rejected"
          /\ UNCHANGED <<listenState, port, calls>>
    /\ UNCHANGED <<createState, getState, hooksState, listening,
                   hookRegistered, requests, exited, hooksFired>>

\* app.listen settles: the HTTP listener is up on the port, or it could not
\* be started.
ListenSettles ==
    /\ ~exited
    /\ listenState = "pending"
    /\ \E o \in Outcomes :
          /\ listenState' = o
          /\ listening' = (o = "resolved")
    /\ UNCHANGED <<pc, createState, getState, hooksState, calls, port,
                   hookRegistered, requests, exited, hooksFired>>

\* bootstrap resumes after `await app.listen(3000)`: on success it runs the
\* synchronous app.get(PrismaService), and when that returns the service it
\* calls prismaService.enableShutdownHooks(app) and suspends on it; when
\* app.get throws, or listen failed, bootstrap's promise rejects.
ResumeAfterListen ==
    /\ ~exited
    /\ pc = "listen"
    /\ \/ /\ ListenAwaited
          /\ getState' = "returned"
          /\ hooksState' = "pending"
          /\ calls' = calls \o <<"get", "enableShutdownHooks">>
          /\ pc' = "hooks"
       \/ /\ ListenAwaited
          /\ getState' = "threw"
          /\ calls' = Append(calls, "get")
          /\ pc' = "rejected"
          /\ UNCHANGED hooksState
       \/ /\ listenState = "rejected"
          /\ pc' = "rejected"
          /\ UNCHANGED <<getState, hooksState, calls>>
    /\ UNCHANGED <<createState, listenState, listening, port,
                   hookRegistered, requests, exited, hooksFired>>

\* Inside enableShutdownHooks the listener for Prisma's beforeExit event is
\* added.
RegisterHook ==
    /\ ~exited
    /\ hooksState = "pending"
    /\ ~hookRegistered
    /\ hookRegistered' = TRUE
    /\ UNCHANGED <<pc, createState, listenState, getState, hooksState, calls,
                   listening, port, requests, exited, hooksFired>>

\* enableShutdownHooks settles: it resolves once the listener is in place,
\* or it fails.
HooksSettle ==
    /\ ~exited
    /\ hooksState = "pending"
    /\ \/ /\ hookRegistered
          /\ hooksState' = "resolved"
       \/ hooksState' = "rejected"
    /\ UNCHANGED <<pc, createState, listenState, getState, calls, listening,
                   port, hookRegistered, requests, exited, hooksFired>>

\* bootstrap resumes after `await prismaService.enableShutdownHooks(app)`
\* and returns, or its promise rejects.
ResumeAfterHooks ==
    /\ ~exited
    /\ pc = "hooks"
    /\ \/ /\ HooksAwaited
          /\ pc' = "done"
       \/ /\ hooksState = "rejected"
          /\ pc' = "rejected"
    /\ UNCHANGED <<createState, listenState, getState, hooksState, calls,
                   listening, port, hookRegistered, requests, exited,
                   hooksFired>>

\* The HTTP listener, once started, awaits and accepts inbound requests,
\* whether or not bootstrap has run to its end.
AcceptRequest ==
    /\ ~exited
    /\ listening
    /\ requests < MaxRequests
    /\ requests' = requests + 1
    /\ UNCHANGED <<pc, createState, listenState, getState, hooksState, calls,
                   listening, port, hookRegistered, exited, hooksFired>>

\* A shutdown signal arrives, at any moment of the process's life.  Prisma
\* listens for it and calls process.exit(); the application's shutdown hooks
\* fire first only when the beforeExit listener has been added.
ShutdownSignal ==
    /\ ~exited
    /\ exited' = TRUE
    /\ hooksFired' = hookRegistered
    /\ UNCHANGED <<pc, createState, listenState, getState, hooksState, calls,
                   listening, port, hookRegistered, requests>>

Next ==
    \/ Bootstrap
    \/ CreateSettles
    \/ ResumeAfterCreate
    \/ ListenSettles
    \/ ResumeAfterListen
    \/ RegisterHook
    \/ HooksSettle
    \/ ResumeAfterHooks
    \/ AcceptRequest
    \/ ShutdownSignal

Spec == Init /\ [][Next]_vars

----------------------------------------------------------------------------

TypeOK ==
    /\ pc \in {"start", "create", "listen", "hooks", "done", "rejected"}
    /\ createState \in PromiseStates
    /\ listenState \in PromiseStates
    /\ getState \in {"idle", "returned", "threw"}
    /\ hooksState \in PromiseStates
    /\ listening \in BOOLEAN
    /\ port \in {0, ListenPort}
    /\ hookRegistered \in BOOLEAN
    /\ requests \in 0..MaxRequests
    /\ exited \in BOOLEAN
    /\ hooksFired \in BOOLEAN

\* s is an initial segment of t.
IsPrefix(s, t) ==
    /\ Len(s) <= Len(t)
    /\ \A i \in 1..Len(s) : s[i] = t[i]

\* C10: bootstrap issues its four calls in source order, NestFactory.create,
\* app.listen(3000), app.get(PrismaService), enableShutdownHooks(app), each
\* only after the previous one completed successfully; so the Prisma
\* shutdown hook is registered only once the HTTP listener is accepting
\* requests on port 3000, and never when create or listen failed.
C10_BootstrapOrder ==
    /\ IsPrefix(calls, BootstrapSteps)
    /\ Len(calls) >= 2 => createState = "resolved"
    /\ Len(calls) >= 3 => listenState = "resolved"
    /\ Len(calls) >= 4 => getState = "returned"
    /\ hooksState # "idle" => Len(calls) = 4
    /\ hookRegistered =>
          /\ hooksState # "idle"
          /\ listening
          /\ port = ListenPort
    /\ (createState = "rejected" \/ listenState = "rejected") =>
          /\ ~hookRegistered
          /\ hooksState = "idle"
          /\ getState = "idle"

\* bootstrap ran to its end: all four calls made, the hook is registered,
\* and the listener has meanwhile accepted a request.
C10_Witness ==
    /\ pc = "done"
    /\ calls = BootstrapSteps
    /\ hookRegistered
    /\ hooksState = "resolved"
    /\ requests > 0

====
